---- MODULE Spec2Model ----
(***************************************************************************)
(* timetracker: the sample compaction (deduplicate_entries), the SQLite    *)
(* backed Storage, the recorder's flush/retry loop and the aggregation of  *)
(* the report, as state machines.                                          *)
(*                                                                         *)
(*   SpecDedup     one call of deduplicate_entries, one loop iteration per *)
(*                 step, over bounded inputs                               *)
(*   SpecTolerance the same call over longer sample sequences              *)
(*   SpecStore     one Storage handle (insert_entries, write_entries,      *)
(*                 read_entries, drop/reopen) over one database file       *)
(*   SpecOpen      the opening of the database file, read-only and         *)
(*                 read-write, from a missing file on                      *)
(*   SpecRecorder  the sampler callback and the writer thread of the       *)
(*                 recorder (write_data_to_storage)                        *)
(*   SpecRecorderFair  SpecRecorder with the writer thread scheduled       *)
(*                 fairly                                                  *)
(*   SpecSignal    the same with SIGINT or SIGTERM handled (handle_signal) *)
(*   SpecVariables one call of sum_entry_variables_duration                *)
(*   SpecReport    one call of generate_entry_variables_lines              *)
(*   SpecActivity  one call of sum_entry_activity_duration                 *)
(*   SpecRange     one call of Entries::datetime_range_entries             *)
(*   SpecBatch     a sample sequence persisted batch by batch, each batch  *)
(*                 through a fresh Storage                                 *)
(***************************************************************************)
EXTENDS Integers, Sequences, FiniteSets, TLC

VARIABLES
    \* --- deduplicate_entries (core/src/entries.rs) ---
    record_interval_seconds, \* the tolerance argument of the call
    dedup,                   \* the locals of the call (see DedupInit)
    \* --- Storage (core/src/storage.rs) ---
    file,        \* the database file: whether it exists, has the table, its mode
    db,          \* the committed rows of table `records`, in rowid order
    storage,     \* the Storage handle: outbox `entries` and its connection
    op,          \* the last Storage call made, its result, a read's arguments
    read_out,    \* what the last Storage call returned, when it was read_entries
    now,         \* the wall clock, chrono::Utc::now().timestamp()
    \* --- recorder (recorder-bin/src/main.rs) ---
    ENTRY_BUFFER, \* the global buffer of samples
    writer,       \* the writer thread: pc, attempt_number, its Storage
    channel,      \* number of flush signals in the mpsc channel
    taken,        \* how many samples the sampler has pushed so far
    mutex,        \* who holds the lock of ENTRY_BUFFER's Mutex
    handler,      \* handle_signal: whether it runs, and where it is
    \* --- report aggregation (print-lib/src/aggregate.rs, print.rs) ---
    agg           \* the arguments and locals of the aggregation call running

dedupVars == <<record_interval_seconds, dedup>>
storeVars == <<file, db, storage, op, read_out, now>>
recVars == <<ENTRY_BUFFER, writer, channel, taken, mutex, handler>>
aggVars == <<agg>>
vars == <<record_interval_seconds, dedup, file, db, storage, op, read_out, now,
          ENTRY_BUFFER, writer, channel, taken, mutex, handler, agg>>

(***************************************************************************)
(* Bounds of the model.                                                    *)
(***************************************************************************)
MaxLen == 2
MaxTime == 2
\* SpecStore: the most entries staged in one Storage, the most rows and the
\* largest sum of durations the table may reach.
MaxOutbox == 2
MaxRows == 3
MaxTotalDuration == 4
\* SpecRecorder: how many samples the sampler takes, and how many of them,
\* the first ones, may find the user idle.
MaxSamples == 21
MaxIdleSamples == 2
\* SpecRange: the most entries held by an Entries, and the latest timestamp.
MaxRangeLen == 3
MaxRangeTime == 4
\* SpecBatch: the longest sample sequence persisted.
MaxBatchLen == 3
\* SpecTolerance: the longest sample sequence of a call.
MaxLenTol == 3
\* SpecVariables: the most entries given to sum_entry_variables_duration.
MaxAggLen == 2
\* SpecReport: the most entries given to generate_entry_variables_lines.
MaxReportLen == 3
\* SpecActivity: the most entries given to sum_entry_activity_duration.
MaxActivityLen == 2

\* core/src/settings.rs
RECORD_INTERVAL_SECONDS == 1

\* Option<String>: None is the empty tuple, Some(s) the one-element tuple.
None == <<>>
Some(s) == <<s>>

(***************************************************************************)
(* core/src/entries.rs: the data model.                                    *)
(***************************************************************************)
EntryStatus == {"Uninitialized", "Active", "Idle"}

RecordRowStatus == {"New", "Existing"}

VarFields == {"executable", "var1_name", "var2_name", "var3_name", "var4_name",
              "var5_name", "var1_value", "var2_value", "var3_value",
              "var4_value", "var5_value"}

EntryVariablesList_empty ==
    [executable |-> None,
     var1_name |-> None, var2_name |-> None, var3_name |-> None,
     var4_name |-> None, var5_name |-> None,
     var1_value |-> None, var2_value |-> None, var3_value |-> None,
     var4_value |-> None, var5_value |-> None]

Entry_new(utc_time_seconds, duration_seconds, status, vars_) ==
    [utc_time_seconds |-> utc_time_seconds,
     duration_seconds |-> duration_seconds,
     status |-> status,
     vars |-> vars_]

Entry_empty == Entry_new(0, 0, "Uninitialized", EntryVariablesList_empty)

\* u64::abs_diff
abs_diff(a, b) == IF a >= b THEN a - b ELSE b - a

(***************************************************************************)
(* The values the bounded inputs are drawn from.  An executable name is a  *)
(* string, modelled as its sequence of tokens ("/" and " " are the         *)
(* separator characters, every other token a run of other characters).     *)
(***************************************************************************)
ExeVim == <<"vim">>
ExePathVim == <<"/", "bin", "/", "vim">>

VarsA == [EntryVariablesList_empty EXCEPT
            !.executable = Some(ExeVim),
            !.var1_name = Some("PWD"), !.var1_value = Some("/a")]
\* differs from VarsA in one field being absent
VarsN == [VarsA EXCEPT !.var1_value = None]

Timestamps == 0..MaxTime
Durations == {1, 2}
Tolerances == {0, 1, 2}

\* What a sample or a persisted row can be: never Uninitialized.  Three
\* kinds: a second status, and variables that differ in one field.
Kinds == {<<"Active", VarsA>>, <<"Idle", VarsA>>, <<"Active", VarsN>>}

Samples ==
    {Entry_new(t, d, k[1], k[2]) : t \in Timestamps, d \in Durations, k \in Kinds}

LastEntries == {Entry_empty} \cup Samples

SampleSeqs == UNION {[1..n -> Samples] : n \in 0..MaxLen}

(***************************************************************************)
(* core/src/entries.rs: deduplicate_entries.                               *)
(***************************************************************************)
\* #[derive(PartialEq)] on EntryVariablesList: field-wise Option equality.
VarsEq(a, b) == a = b

\* Faulty variant: the variables are not compared.
MergeCondition_NoVars(last, last_dur, current, tol) ==
    LET last_entry_time == last.utc_time_seconds + last_dur
        current_entry_time == current.utc_time_seconds + current.duration_seconds
    IN  /\ last.status # "Uninitialized"
        /\ abs_diff(last_entry_time, current_entry_time) <= tol
        /\ last.status = current.status

\* Faulty variant: the run's end is compared with the sample's start.
MergeCondition_StartGap(last, last_dur, current, tol) ==
    LET last_entry_time == last.utc_time_seconds + last_dur
        current_entry_time == current.utc_time_seconds
    IN  /\ last.status # "Uninitialized"
        /\ abs_diff(last_entry_time, current_entry_time) <= tol
        /\ last.status = current.status
        /\ VarsEq(last.vars, current.vars)

\* Faulty variant: the tolerance comparison is strict.
MergeCondition_Strict(last, last_dur, current, tol) ==
    LET last_entry_time == last.utc_time_seconds + last_dur
        current_entry_time == current.utc_time_seconds + current.duration_seconds
    IN  /\ last.status # "Uninitialized"
        /\ abs_diff(last_entry_time, current_entry_time) < tol
        /\ last.status = current.status
        /\ VarsEq(last.vars, current.vars)

\* The condition of the `if` in the loop (lines 173-176).  `last` is
\* new_entries[last_index], `last_dur` is last_entry_duration_seconds.
MergeCondition(last, last_dur, current, tol) ==
    LET last_entry_time == last.utc_time_seconds + last_dur
        current_entry_time == current.utc_time_seconds + current.duration_seconds
    IN  /\ last.status # "Uninitialized"
        /\ abs_diff(last_entry_time, current_entry_time) <= tol
        /\ last.status = current.status
        /\ VarsEq(last.vars, current.vars)

\* Faulty variant: the inherited last_entry is tagged New.
DedupInit_TagsNew(last_entry, entries) ==
    [new_entries |-> <<last_entry>> \o entries,
     entries_dedup |-> IF last_entry.status # "Uninitialized"
                         THEN <<last_entry>> ELSE <<>>,
     entry_row_statuses |-> IF last_entry.status # "Uninitialized"
                              THEN <<"New">> ELSE <<>>,
     last_index |-> 0,
     last_index_mut |-> 0,
     last_entry_duration_seconds |-> last_entry.duration_seconds,
     current_index |-> 1]

\* Lines 152-166: the state of the call before the loop.  The indices are
\* the code's 0-based indices; a sequence access adds 1.
DedupInit(last_entry, entries) ==
    [new_entries |-> <<last_entry>> \o entries,
     entries_dedup |-> IF last_entry.status # "Uninitialized"
                         THEN <<last_entry>> ELSE <<>>,
     entry_row_statuses |-> IF last_entry.status # "Uninitialized"
                              THEN <<"Existing">> ELSE <<>>,
     last_index |-> 0,
     last_index_mut |-> 0,
     last_entry_duration_seconds |-> last_entry.duration_seconds,
     current_index |-> 1]

DedupRunning(s) == s.current_index < Len(s.new_entries)

\* Faulty variant: a merge counts one second, whatever the sample's duration.
DedupStep_AddsOne(s, tol) ==
    LET last_entry == s.new_entries[s.last_index + 1]
        current_entry == s.new_entries[s.current_index + 1]
    IN  IF MergeCondition(last_entry, s.last_entry_duration_seconds,
                          current_entry, tol)
        THEN LET merged == [s.entries_dedup EXCEPT
                               ![s.last_index_mut + 1].duration_seconds = @ + 1]
             IN  [s EXCEPT
                    !.entries_dedup = merged,
                    !.last_entry_duration_seconds =
                        merged[s.last_index_mut + 1].duration_seconds,
                    !.current_index = @ + 1]
        ELSE [s EXCEPT
                !.last_index_mut = Len(s.entries_dedup),
                !.last_entry_duration_seconds = current_entry.duration_seconds,
                !.entries_dedup = Append(@, current_entry),
                !.entry_row_statuses = Append(@, "New"),
                !.last_index = s.current_index,
                !.current_index = @ + 1]

\* Faulty variant: a run opened right after the inherited row is tagged Existing.
DedupStep_TagsExisting(s, tol) ==
    LET last_entry == s.new_entries[s.last_index + 1]
        current_entry == s.new_entries[s.current_index + 1]
    IN  IF MergeCondition(last_entry, s.last_entry_duration_seconds,
                          current_entry, tol)
        THEN LET merged == [s.entries_dedup EXCEPT
                               ![s.last_index_mut + 1].duration_seconds =
                                   @ + current_entry.duration_seconds]
             IN  [s EXCEPT
                    !.entries_dedup = merged,
                    !.last_entry_duration_seconds =
                        merged[s.last_index_mut + 1].duration_seconds,
                    !.current_index = @ + 1]
        ELSE [s EXCEPT
                !.last_index_mut = Len(s.entries_dedup),
                !.last_entry_duration_seconds = current_entry.duration_seconds,
                !.entries_dedup = Append(@, current_entry),
                !.entry_row_statuses =
                    Append(@, IF s.last_index = 0 THEN "Existing" ELSE "New"),
                !.last_index = s.current_index,
                !.current_index = @ + 1]

\* Faulty variant: a new run is opened from the entry before it, not from
\* the current sample.
DedupStep_PushesLast(s, tol) ==
    LET last_entry == s.new_entries[s.last_index + 1]
        current_entry == s.new_entries[s.current_index + 1]
    IN  IF MergeCondition(last_entry, s.last_entry_duration_seconds,
                          current_entry, tol)
        THEN LET merged == [s.entries_dedup EXCEPT
                               ![s.last_index_mut + 1].duration_seconds =
                                   @ + current_entry.duration_seconds]
             IN  [s EXCEPT
                    !.entries_dedup = merged,
                    !.last_entry_duration_seconds =
                        merged[s.last_index_mut + 1].duration_seconds,
                    !.current_index = @ + 1]
        ELSE [s EXCEPT
                !.last_index_mut = Len(s.entries_dedup),
                !.last_entry_duration_seconds = current_entry.duration_seconds,
                !.entries_dedup = Append(@, last_entry),
                !.entry_row_statuses = Append(@, "New"),
                !.last_index = s.current_index,
                !.current_index = @ + 1]

\* Lines 168-189: one iteration of the while loop.
DedupStep(s, tol) ==
    LET last_entry == s.new_entries[s.last_index + 1]
        current_entry == s.new_entries[s.current_index + 1]
    IN  IF MergeCondition(last_entry, s.last_entry_duration_seconds,
                          current_entry, tol)
        THEN LET merged == [s.entries_dedup EXCEPT
                               ![s.last_index_mut + 1].duration_seconds =
                                   @ + current_entry.duration_seconds]
             IN  [s EXCEPT
                    !.entries_dedup = merged,
                    !.last_entry_duration_seconds =
                        merged[s.last_index_mut + 1].duration_seconds,
                    !.current_index = @ + 1]
        ELSE [s EXCEPT
                !.last_index_mut = Len(s.entries_dedup),
                !.last_entry_duration_seconds = current_entry.duration_seconds,
                !.entries_dedup = Append(@, current_entry),
                !.entry_row_statuses = Append(@, "New"),
                !.last_index = s.current_index,
                !.current_index = @ + 1]

RECURSIVE DedupRun(_, _)
DedupRun(s, tol) ==
    IF DedupRunning(s) THEN DedupRun(DedupStep(s, tol), tol) ELSE s

\* The whole call: the two output vectors.
deduplicate_entries(last_entry, entries, tol) ==
    LET s == DedupRun(DedupInit(last_entry, entries), tol)
    IN  [entries_dedup |-> s.entries_dedup,
         entry_row_statuses |-> s.entry_row_statuses]

(***************************************************************************)
(* SpecDedup: one call of deduplicate_entries on bounded inputs.           *)
(***************************************************************************)
\* A Storage handle that is not open (dropped, or not yet created).
StorageClosed ==
    [open |-> FALSE, auto_create_database_file |-> FALSE, entries |-> <<>>,
     record_interval_seconds |-> 0, txn |-> FALSE, view |-> <<>>]

\* A database file as a successful creating open leaves it (lines 444-459).
FileCreated == [exists |-> TRUE, table |-> TRUE, mode |-> "0600"]

StoreIdle ==
    /\ file = FileCreated
    /\ db = <<>>
    /\ storage = StorageClosed
    /\ op = [call |-> "none", ok |-> TRUE]
    /\ read_out = <<>>
    /\ now = 0

RecorderIdle ==
    /\ ENTRY_BUFFER = <<>>
    /\ writer = [pc |-> "recv", attempt_number |-> 0, wait_duration |-> 0,
                 has_waited |-> 0]
    /\ channel = 0
    /\ taken = 0
    /\ mutex = "none"
    /\ handler = [pc |-> "none"]

\* No aggregation call is running.
AggIdle == agg = [call |-> "none"]

DedupIdle ==
    /\ record_interval_seconds = 0
    /\ dedup = DedupInit(Entry_empty, <<>>)

DedupCallInit ==
    /\ record_interval_seconds \in Tolerances
    /\ \E last_entry \in LastEntries, entries \in SampleSeqs :
           dedup = DedupInit(last_entry, entries)
    /\ StoreIdle
    /\ RecorderIdle
    /\ AggIdle

DedupLoop ==
    /\ DedupRunning(dedup)
    /\ dedup' = DedupStep(dedup, record_interval_seconds)
    /\ UNCHANGED <<record_interval_seconds, storeVars, recVars, aggVars>>

DedupNext == DedupLoop

SpecDedup == DedupCallInit /\ [][DedupNext]_vars

(***************************************************************************)
(* Properties of deduplicate_entries, checked under SpecDedup.             *)
(***************************************************************************)
RECURSIVE SumDuration(_)
SumDuration(es) ==
    IF es = <<>> THEN 0 ELSE Head(es).duration_seconds + SumDuration(Tail(es))

DedupDone == ~DedupRunning(dedup)

\* The arguments of the call, as the caller passed them.
ArgLastEntry == dedup.new_entries[1]
ArgEntries == Tail(dedup.new_entries)

\* The current run as the output holds it: the last emitted row, whose
\* duration_seconds is the run's accumulated duration; before any row is
\* emitted, the Uninitialized last_entry.
CurrentRun ==
    IF dedup.entries_dedup = <<>>
    THEN ArgLastEntry
    ELSE dedup.entries_dedup[Len(dedup.entries_dedup)]

\* The sample the next loop iteration looks at.
CurrentSample == dedup.new_entries[dedup.current_index + 1]

\* The merge rule in the words of the specification.
Mergeable(run, sample, tol) ==
    /\ run.status # "Uninitialized"
    /\ (run.utc_time_seconds + run.duration_seconds)
         - (sample.utc_time_seconds + sample.duration_seconds) <= tol
    /\ (sample.utc_time_seconds + sample.duration_seconds)
         - (run.utc_time_seconds + run.duration_seconds) <= tol
    /\ run.status = sample.status
    /\ \A f \in VarFields : run.vars[f] = sample.vars[f]

\* C2: a loop iteration merges the sample into the current run (adding the
\* sample's duration to the run's, emitting nothing) exactly when the run is
\* not Uninitialized, the two end times are within the tolerance, and status
\* and every variable field agree; otherwise it emits the sample as a new
\* row tagged New.  A sample that differs from the sample before it in
\* status or in a variable field always opens a new row.
C2_MergeIff ==
    [][DedupRunning(dedup) =>
        LET n == Len(dedup.entries_dedup)
            sample == CurrentSample
        IN  /\ IF Mergeable(CurrentRun, sample, record_interval_seconds)
               THEN /\ dedup'.entries_dedup =
                         [dedup.entries_dedup EXCEPT
                            ![n].duration_seconds = @ + sample.duration_seconds]
                    /\ dedup'.entry_row_statuses = dedup.entry_row_statuses
               ELSE /\ dedup'.entries_dedup = Append(dedup.entries_dedup, sample)
                    /\ dedup'.entry_row_statuses =
                         Append(dedup.entry_row_statuses, "New")
            /\ (dedup.current_index >= 2
                /\ LET before == dedup.new_entries[dedup.current_index]
                   IN  before.status # sample.status \/ before.vars # sample.vars)
               => Len(dedup'.entries_dedup) = n + 1
    ]_vars

\* A finished call on a real last_entry and two samples of its status: one
\* merged into it, the other split off because a variable field differs.
C2_Witness ==
    /\ DedupDone
    /\ Len(ArgEntries) = 2
    /\ ArgLastEntry.status # "Uninitialized"
    /\ Len(dedup.entries_dedup) = 2
    /\ dedup.entries_dedup[1].duration_seconds > ArgLastEntry.duration_seconds
    /\ dedup.entries_dedup[2].status = dedup.entries_dedup[1].status
    /\ dedup.entries_dedup[2].vars # dedup.entries_dedup[1].vars

\* C3: when the call has finished, the durations of the output sum to the
\* durations of the input samples plus that of a real last_entry.
C3_DurationConserved ==
    DedupDone =>
        SumDuration(dedup.entries_dedup) =
            SumDuration(ArgEntries)
            + (IF ArgLastEntry.status # "Uninitialized"
               THEN ArgLastEntry.duration_seconds ELSE 0)

\* A finished call that merged a two-second sample into a run.
C3_Witness ==
    /\ DedupDone
    /\ Len(ArgEntries) = 2
    /\ Len(dedup.entries_dedup) < Len(dedup.new_entries) - 1
    /\ \E i \in 1..2 : ArgEntries[i].duration_seconds = 2
    /\ \E i \in 1..Len(dedup.entries_dedup) :
           dedup.entries_dedup[i].duration_seconds >= 3

\* Whether the output of a finished call has a first sample that the
\* supplied last_entry was eligible to merge with.
FirstSampleMergeable ==
    /\ ArgEntries # <<>>
    /\ Mergeable(ArgLastEntry, ArgEntries[1], record_interval_seconds)

\* C8 as stated: the first emitted row is Existing iff a real last_entry was
\* supplied and it was eligible to merge with the first sample.
C8_Original ==
    DedupDone =>
        /\ dedup.entry_row_statuses # <<>> =>
              (dedup.entry_row_statuses[1] = "Existing"
                 <=> (ArgLastEntry.status # "Uninitialized" /\ FirstSampleMergeable))
        /\ \A i \in 2..Len(dedup.entry_row_statuses) :
              dedup.entry_row_statuses[i] = "New"

\* C8 amended: the first emitted row is Existing iff a real last_entry was
\* supplied, whether or not the first sample merges into it; every other
\* emitted row is New.
C8_FirstRowExistingIffLastEntry ==
    DedupDone =>
        /\ dedup.entry_row_statuses # <<>> =>
              (dedup.entry_row_statuses[1] = "Existing"
                 <=> ArgLastEntry.status # "Uninitialized")
        /\ \A i \in 2..Len(dedup.entry_row_statuses) :
              dedup.entry_row_statuses[i] = "New"

\* A finished call whose real last_entry did not merge with the first
\* sample and is emitted tagged Existing, followed by a New row.
C8_Witness ==
    /\ DedupDone
    /\ ArgLastEntry.status # "Uninitialized"
    /\ ArgEntries # <<>>
    /\ ~FirstSampleMergeable
    /\ Len(dedup.entry_row_statuses) >= 2
    /\ dedup.entry_row_statuses[1] = "Existing"
    /\ dedup.entry_row_statuses[2] = "New"

\* C9: a real last_entry is always the first output row, tagged Existing,
\* with its timestamp, status and variables; its duration is unchanged when
\* the first sample does not merge or there is no sample.  With an
\* Uninitialized last_entry no row is Existing, and no sample gives no row.
C9_LastEntryEmittedExisting ==
    DedupDone =>
        IF ArgLastEntry.status # "Uninitialized"
        THEN /\ Len(dedup.entries_dedup) >= 1
             /\ dedup.entry_row_statuses[1] = "Existing"
             /\ dedup.entries_dedup[1].utc_time_seconds = ArgLastEntry.utc_time_seconds
             /\ dedup.entries_dedup[1].status = ArgLastEntry.status
             /\ dedup.entries_dedup[1].vars = ArgLastEntry.vars
             /\ ~FirstSampleMergeable =>
                    dedup.entries_dedup[1].duration_seconds
                        = ArgLastEntry.duration_seconds
             /\ ArgEntries = <<>> =>
                    /\ dedup.entries_dedup = <<ArgLastEntry>>
                    /\ dedup.entry_row_statuses = <<"Existing">>
        ELSE /\ \A i \in 1..Len(dedup.entry_row_statuses) :
                    dedup.entry_row_statuses[i] # "Existing"
             /\ Len(dedup.entry_row_statuses) = Len(dedup.entries_dedup)
             /\ ArgEntries = <<>> =>
                    /\ dedup.entries_dedup = <<>>
                    /\ dedup.entry_row_statuses = <<>>

\* A finished call over two samples with a real last_entry the first sample
\* did not merge into: the loop has run, and the first output row is the
\* last_entry as it was passed, tagged Existing.
C9_Witness ==
    /\ DedupDone
    /\ dedup.current_index = 3
    /\ ArgLastEntry.status # "Uninitialized"
    /\ ~FirstSampleMergeable
    /\ dedup.entries_dedup[1] = ArgLastEntry
    /\ dedup.entry_row_statuses[1] = "Existing"

\* n >= 1 one-second samples of one status and one variable list at
\* consecutive timestamps.
ConsecutiveSameSamples(es) ==
    /\ Len(es) >= 1
    /\ \A i \in 1..Len(es) :
          /\ es[i].duration_seconds = 1
          /\ es[i].status = es[1].status
          /\ es[i].vars = es[1].vars
          /\ es[i].utc_time_seconds = es[1].utc_time_seconds + (i - 1)

\* C10: with tolerance 1, such samples collapse into one output entry:
\* (t, n) tagged New from an Uninitialized last_entry, (t-d, d+n) tagged
\* Existing from a last_entry (t-d, d) of the same status and variables.
C10_ConstantRunCollapses ==
    (DedupDone /\ record_interval_seconds = 1 /\ ConsecutiveSameSamples(ArgEntries)) =>
        LET n == Len(ArgEntries)
            first == ArgEntries[1]
            last == ArgLastEntry
        IN  /\ last.status = "Uninitialized" =>
                  /\ dedup.entries_dedup =
                        <<Entry_new(first.utc_time_seconds, n, first.status, first.vars)>>
                  /\ dedup.entry_row_statuses = <<"New">>
            /\ (/\ last.status = first.status
                /\ last.vars = first.vars
                /\ last.utc_time_seconds + last.duration_seconds
                     = first.utc_time_seconds) =>
                  /\ dedup.entries_dedup =
                        <<Entry_new(last.utc_time_seconds, last.duration_seconds + n,
                                    last.status, last.vars)>>
                  /\ dedup.entry_row_statuses = <<"Existing">>

\* A finished call on a last_entry (0, 1) and the samples at 1 and 2.
C10_Witness ==
    /\ DedupDone
    /\ record_interval_seconds = 1
    /\ ConsecutiveSameSamples(ArgEntries)
    /\ Len(ArgEntries) = 2
    /\ ArgLastEntry.status = ArgEntries[1].status
    /\ ArgLastEntry.vars = ArgEntries[1].vars
    /\ ArgLastEntry.utc_time_seconds + ArgLastEntry.duration_seconds
         = ArgEntries[1].utc_time_seconds
    /\ Len(dedup.entries_dedup) = 1
    /\ dedup.entries_dedup[1].duration_seconds = ArgLastEntry.duration_seconds + 2

(***************************************************************************)
(* core/src/lib.rs: executable names.                                      *)
(***************************************************************************)
\* name.find(' '): everything before the first space.
strip_executable_name(name) ==
    IF \E i \in 1..Len(name) : name[i] = " "
    THEN LET end_index == CHOOSE i \in 1..Len(name) :
                              /\ name[i] = " "
                              /\ \A j \in 1..(i - 1) : name[j] # " "
         IN  SubSeq(name, 1, end_index - 1)
    ELSE name

\* strip_end.rfind('/'): everything after the last slash.
format_short_executable_name(name) ==
    LET strip_end == strip_executable_name(name)
    IN  IF \E i \in 1..Len(strip_end) : strip_end[i] = "/"
        THEN LET start_index == CHOOSE i \in 1..Len(strip_end) :
                                    /\ strip_end[i] = "/"
                                    /\ \A j \in (i + 1)..Len(strip_end) :
                                           strip_end[j] # "/"
             IN  SubSeq(strip_end, start_index + 1, Len(strip_end))
        ELSE strip_end

(***************************************************************************)
(* core/src/storage.rs: the table `records` and the statements on it.  A   *)
(* table is the sequence of its rows in rowid order; a row is an Entry.    *)
(***************************************************************************)
\* What the connection of the Storage handle reads: inside its own open
\* transaction its uncommitted view, else the committed table.
TableSeen == IF storage.open /\ storage.txn THEN storage.view ELSE db

\* SELECT ... ORDER BY utc_time_seconds DESC LIMIT 1: Entry::empty() on an
\* empty table, else a row of the greatest timestamp (SQL leaves the choice
\* among equal timestamps open).
get_last_database_entry(table) ==
    IF table = <<>>
    THEN {Entry_empty}
    ELSE {table[i] : i \in {j \in 1..Len(table) :
                              \A k \in 1..Len(table) :
                                  table[k].utc_time_seconds
                                      <= table[j].utc_time_seconds}}

\* UPDATE records SET duration_seconds = :d WHERE utc_time_seconds = :t
UpdateRow(table, entry) ==
    [i \in 1..Len(table) |->
        IF table[i].utc_time_seconds = entry.utc_time_seconds
        THEN [table[i] EXCEPT !.duration_seconds = entry.duration_seconds]
        ELSE table[i]]

\* INSERT INTO records (...): every field as it is, the executable through
\* format_short_executable_name.
InsertRow(table, entry) ==
    Append(table,
           [entry EXCEPT !.vars.executable =
               IF @ = None THEN None
               ELSE Some(format_short_executable_name(@[1]))])

\* update_existing_entry_rows_into_database, its first n statements.
RECURSIVE update_existing_entry_rows_into_database(_, _, _)
update_existing_entry_rows_into_database(table, existing_entries_dedup, n) ==
    IF n = 0 THEN table
    ELSE UpdateRow(update_existing_entry_rows_into_database(
                       table, existing_entries_dedup, n - 1),
                   existing_entries_dedup[n])

\* insert_new_entry_rows_into_database, its first n statements.
RECURSIVE insert_new_entry_rows_into_database(_, _, _)
insert_new_entry_rows_into_database(table, new_entries_dedup, n) ==
    IF n = 0 THEN table
    ELSE InsertRow(insert_new_entry_rows_into_database(
                       table, new_entries_dedup, n - 1),
                   new_entries_dedup[n])

\* entries_dedup.iter().zip(&entry_row_statuses).filter(|x| x.1 == status)
RECURSIVE FilterByRowStatus(_, _, _)
FilterByRowStatus(entries_dedup, entry_row_statuses, row_status) ==
    IF entries_dedup = <<>> THEN <<>>
    ELSE (IF Head(entry_row_statuses) = row_status
          THEN <<Head(entries_dedup)>> ELSE <<>>)
         \o FilterByRowStatus(Tail(entries_dedup), Tail(entry_row_statuses),
                              row_status)

\* The statements of write_entries between BEGIN and END TRANSACTION, on
\* the table as read, with last_entry the row get_last_database_entry gave:
\* the first n_update UPDATEs, then the first n_insert INSERTs.
WriteStatements(table, last_entry, entries, tol, n_update, n_insert) ==
    LET out == deduplicate_entries(last_entry, entries, tol)
        new_entries_dedup ==
            FilterByRowStatus(out.entries_dedup, out.entry_row_statuses, "New")
        existing_entries_dedup ==
            FilterByRowStatus(out.entries_dedup, out.entry_row_statuses, "Existing")
    IN  insert_new_entry_rows_into_database(
            update_existing_entry_rows_into_database(
                table, existing_entries_dedup, n_update),
            new_entries_dedup, n_insert)

\* How many UPDATE and INSERT statements a write_entries call issues.
StatementCounts(last_entry, entries, tol) ==
    LET out == deduplicate_entries(last_entry, entries, tol)
        n_existing == Cardinality({i \in 1..Len(out.entry_row_statuses) :
                                      out.entry_row_statuses[i] = "Existing"})
    IN  [update |-> n_existing,
         insert |-> Len(out.entry_row_statuses) - n_existing]

\* The table of a write_entries call in which every statement succeeded.
WriteAll(table, last_entry, entries, tol) ==
    LET n == StatementCounts(last_entry, entries, tol)
    IN  WriteStatements(table, last_entry, entries, tol, n.update, n.insert)

(***************************************************************************)
(* SpecStore: one Storage handle at a time over one database file.         *)
(***************************************************************************)
\* The samples a caller stages: stamped by the clock, one interval long.
StoreKinds == {<<"Active", VarsA>>, <<"Idle", VarsA>>,
               <<"Active", [VarsA EXCEPT !.executable = Some(ExePathVim)]>>}

\* Storage::open through open_as_read_write on a file that exists: a fresh
\* handle with an empty outbox; the file is left as it is.
StorageOpen ==
    /\ ~storage.open
    /\ file.exists
    /\ storage' = [open |-> TRUE, auto_create_database_file |-> TRUE,
                   entries |-> <<>>,
                   record_interval_seconds |-> RECORD_INTERVAL_SECONDS,
                   txn |-> FALSE, view |-> <<>>]
    /\ op' = [call |-> "open_as_read_write", ok |-> TRUE]
    /\ read_out' = <<>>
    /\ UNCHANGED <<db, now, file, dedupVars, recVars, aggVars>>

\* The handle goes out of scope: rusqlite closes the connection, and SQLite
\* rolls back a transaction that is still open.
StorageDrop ==
    /\ storage.open
    /\ storage' = StorageClosed
    /\ op' = [call |-> "drop", ok |-> TRUE]
    /\ read_out' = <<>>
    /\ UNCHANGED <<db, now, file, dedupVars, recVars, aggVars>>

\* The wall clock moves on.
ClockTick ==
    /\ now < MaxTime
    /\ now' = now + 1
    /\ UNCHANGED <<db, storage, op, read_out, file, dedupVars, recVars, aggVars>>

\* Storage::insert_entries, with one sample taken now.
InsertEntries ==
    /\ storage.open
    /\ Len(storage.entries) < MaxOutbox
    /\ \E k \in StoreKinds :
          storage' = [storage EXCEPT !.entries =
                         Append(@, Entry_new(now, RECORD_INTERVAL_SECONDS,
                                             k[1], k[2]))]
    /\ op' = [call |-> "insert_entries", ok |-> TRUE]
    /\ read_out' = <<>>
    /\ UNCHANGED <<db, now, file, dedupVars, recVars, aggVars>>

\* Storage::write_entries returning Ok: BEGIN, the read of the last row,
\* every UPDATE and INSERT, and the commit all succeeded.
WriteEntriesOk ==
    /\ storage.open
    /\ file.table
    /\ ~storage.txn
    /\ \E last_entry \in get_last_database_entry(db) :
          LET table == WriteAll(db, last_entry, storage.entries,
                                storage.record_interval_seconds)
          IN  /\ Len(table) <= MaxRows
              /\ SumDuration(table) <= MaxTotalDuration
              /\ db' = table
    /\ op' = [call |-> "write_entries", ok |-> TRUE]
    /\ read_out' = <<>>
    /\ UNCHANGED <<storage, now, file, dedupVars, recVars, aggVars>>

\* Storage::write_entries returning Err.  BEGIN fails inside a transaction
\* the handle already left open.  Otherwise a later step failed after the
\* first n_update UPDATEs and n_insert INSERTs (all of them, when it is the
\* commit that failed); the `?` returns without a ROLLBACK, so the
\* transaction stays open with those statements applied, unless SQLite
\* itself rolled the transaction back on the error.
WriteEntriesErr ==
    /\ storage.open
    /\ \/ /\ storage.txn
          /\ UNCHANGED storage
       \/ /\ ~storage.txn
          /\ \E last_entry \in get_last_database_entry(db),
                rolled_back \in BOOLEAN :
                LET n == StatementCounts(last_entry, storage.entries,
                                         storage.record_interval_seconds)
                IN  \E n_update \in 0..n.update, n_insert \in 0..n.insert :
                       /\ n_insert > 0 => n_update = n.update
                       /\ storage' =
                            IF rolled_back
                            THEN [storage EXCEPT !.txn = FALSE, !.view = <<>>]
                            ELSE [storage EXCEPT
                                    !.txn = TRUE,
                                    !.view = WriteStatements(
                                        db, last_entry, storage.entries,
                                        storage.record_interval_seconds,
                                        n_update, n_insert)]
    /\ op' = [call |-> "write_entries", ok |-> FALSE]
    /\ read_out' = <<>>
    /\ UNCHANGED <<db, now, file, dedupVars, recVars, aggVars>>

\* SELECT ... WHERE utc_time_seconds > :start AND utc_time_seconds < :end
\* ORDER BY utc_time_seconds ASC, on the rows in rowid order.
RECURSIVE SelectRange(_, _, _)
SelectRange(table, start, end) ==
    IF table = <<>> THEN <<>>
    ELSE (IF Head(table).utc_time_seconds > start
             /\ Head(table).utc_time_seconds < end
          THEN <<Head(table)>> ELSE <<>>) \o SelectRange(Tail(table), start, end)

RECURSIVE InsertSorted(_, _)
InsertSorted(sorted, row) ==
    IF sorted = <<>> THEN <<row>>
    ELSE IF row.utc_time_seconds < Head(sorted).utc_time_seconds
         THEN <<row>> \o sorted
         ELSE <<Head(sorted)>> \o InsertSorted(Tail(sorted), row)

RECURSIVE OrderByTimeAsc(_)
OrderByTimeAsc(rows) ==
    IF rows = <<>> THEN <<>>
    ELSE InsertSorted(OrderByTimeAsc(SubSeq(rows, 1, Len(rows) - 1)),
                      rows[Len(rows)])

\* Storage::read_entries on the handle's connection.
ReadEntries ==
    /\ storage.open
    /\ file.table
    /\ \E start_utc_time_seconds \in {0, 1}, end_utc_time_seconds \in {MaxTime, MaxTime + 1} :
          /\ read_out' = OrderByTimeAsc(SelectRange(TableSeen, start_utc_time_seconds,
                                                    end_utc_time_seconds))
          /\ op' = [call |-> "read_entries", ok |-> TRUE,
                    start_utc_time_seconds |-> start_utc_time_seconds,
                    end_utc_time_seconds |-> end_utc_time_seconds]
    /\ UNCHANGED <<db, storage, now, file, dedupVars, recVars, aggVars>>

StoreInit ==
    /\ StoreIdle
    /\ DedupIdle
    /\ RecorderIdle
    /\ AggIdle

StoreNext ==
    \/ StorageOpen
    \/ StorageDrop
    \/ ClockTick
    \/ InsertEntries
    \/ WriteEntriesOk
    \/ WriteEntriesErr
    \/ ReadEntries

SpecStore == StoreInit /\ [][StoreNext]_vars

(***************************************************************************)
(* Properties of the Storage, checked under SpecStore.                     *)
(***************************************************************************)
WriteReturnedOk == op.call = "write_entries" /\ op.ok
WriteReturnedErr == op.call = "write_entries" /\ ~op.ok

\* C4: at-most-once persistence.  A write_entries that returns Ok leaves
\* the outbox empty, one that returns Err leaves the outbox as it was, and
\* a write_entries that follows a successful one with no insert_entries in
\* between adds no row and no duration to the table.
C4_AtMostOnce ==
    [][/\ WriteReturnedOk' => storage'.entries = <<>>
       /\ WriteReturnedErr' => storage'.entries = storage.entries
       /\ (WriteReturnedOk /\ WriteReturnedOk') => db' = db
    ]_vars

\* C5: write_entries is atomic.  When it returns Err, the table its own
\* connection reads afterwards and the table every other connection reads
\* are the table as it was before the call.
C5_FailedWriteInvisible ==
    [][WriteReturnedErr' => (TableSeen' = TableSeen /\ db' = db)]_vars

\* The rows of the greatest timestamp.
LastRows(table) ==
    {i \in 1..Len(table) :
        \A k \in 1..Len(table) :
            table[k].utc_time_seconds <= table[i].utc_time_seconds}

\* C6: a write_entries call changes at most one row that existed before it,
\* a row of the greatest timestamp, and only by raising its
\* duration_seconds; every other row that existed keeps all its fields.
C6_OnlyLastRowExtended ==
    [][WriteReturnedOk' =>
        /\ Len(db') >= Len(db)
        /\ Cardinality({i \in 1..Len(db) : db'[i] # db[i]}) <= 1
        /\ \A i \in 1..Len(db) :
              db'[i] # db[i] =>
                 /\ i \in LastRows(db)
                 /\ db'[i] = [db[i] EXCEPT !.duration_seconds = db'[i].duration_seconds]
                 /\ db'[i].duration_seconds >= db[i].duration_seconds
    ]_vars

\* C7: the staged samples have non-decreasing timestamps and last one
\* sampling interval each (InsertEntries stages no other), and the rows of
\* the table are totally ordered by timestamp without overlap.
C7_RowsOrderedDisjoint ==
    \A i \in 1..(Len(db) - 1) :
        /\ db[i].utc_time_seconds < db[i + 1].utc_time_seconds
        /\ db[i].utc_time_seconds + db[i].duration_seconds
              <= db[i + 1].utc_time_seconds

(***************************************************************************)
(* recorder-bin/src/main.rs: the sampler callback on the main thread and   *)
(* the writer thread running write_data_to_storage.  (recorder/src/main.rs *)
(* holds the same write_data_to_storage and loop.)                         *)
(***************************************************************************)
ENTRY_BUFFER_MAX_COUNT == 10

total_allowed_attempts == 10

\* ((RECORD_INTERVAL_SECONDS as f32 * ENTRY_BUFFER_MAX_COUNT as f32) * 0.8)
\* as u64 seconds, in milliseconds.
total_allowed_wait_millis ==
    ((RECORD_INTERVAL_SECONDS * ENTRY_BUFFER_MAX_COUNT * 8) \div 10) * 1000

\* How long one Storage::open or write_entries may take, in milliseconds.
OpMillis == {0, 4500}

\* What the sampler records: the status from the idle time, one executable.
RecorderKinds == {<<"Active", VarsA>>, <<"Idle", VarsA>>}

Running == writer.pc # "aborted"

\* A faulty sampler: it pushes the sample and never sends the flush signal.
SamplerTick_NeverSends ==
    /\ Running
    /\ taken < MaxSamples
    /\ mutex = "none"
    /\ now' = now + RECORD_INTERVAL_SECONDS
    /\ \E k \in RecorderKinds :
          /\ k[1] = "Idle" => taken < MaxIdleSamples
          /\ ENTRY_BUFFER' = Append(ENTRY_BUFFER,
                                    Entry_new(now', RECORD_INTERVAL_SECONDS, k[1], k[2]))
    /\ taken' = taken + 1
    /\ UNCHANGED <<writer, channel, db, storage, op, read_out, file, mutex, handler,
                   dedupVars, aggVars>>

\* The glib timeout callback (lines 216-290): one interval later it takes a
\* sample stamped with the clock, pushes it under the mutex and, when the
\* buffer is exactly ENTRY_BUFFER_MAX_COUNT long, sends the flush signal.
SamplerTick ==
    /\ Running
    /\ taken < MaxSamples
    /\ mutex = "none"
    /\ now' = now + RECORD_INTERVAL_SECONDS
    /\ \E k \in RecorderKinds :
          /\ k[1] = "Idle" => taken < MaxIdleSamples
          /\ ENTRY_BUFFER' = Append(ENTRY_BUFFER,
                                    Entry_new(now', RECORD_INTERVAL_SECONDS, k[1], k[2]))
    /\ taken' = taken + 1
    /\ channel' = IF Len(ENTRY_BUFFER') = ENTRY_BUFFER_MAX_COUNT
                  THEN channel + 1 ELSE channel
    /\ UNCHANGED <<writer, db, storage, op, read_out, file, mutex, handler, dedupVars, aggVars>>

\* rx.recv() returns (line 208) and write_data_to_storage starts (60-68).
WriterRecv ==
    /\ writer.pc = "recv"
    /\ channel > 0
    /\ channel' = channel - 1
    /\ writer' = [pc |-> "loop", attempt_number |-> 0, wait_duration |-> 1,
                  has_waited |-> 0]
    /\ UNCHANGED <<ENTRY_BUFFER, taken, now, db, storage, op, read_out, file, mutex, handler, dedupVars, aggVars>>

\* Line 70, attempt_number = 0: straight to the attempt.
WriterFirstAttempt ==
    /\ writer.pc = "loop"
    /\ writer.attempt_number = 0
    /\ writer' = [writer EXCEPT !.pc = "open"]
    /\ UNCHANGED <<ENTRY_BUFFER, taken, channel, now, db, storage, op, read_out,
                   file, mutex, handler, dedupVars, aggVars>>

\* Lines 70-90 of a retry: the attempt ceiling or the time budget is
\* exceeded, and the process aborts.
do_exit ==
    \/ writer.attempt_number >= total_allowed_attempts
    \/ writer.has_waited > total_allowed_wait_millis

\* A faulty ceiling: the loop is left and write_data_to_storage returns Ok
\* without a successful write (what `0..=(total_allowed_attempts + 1)` would
\* do without the abort).
WriterAbort_Returns ==
    /\ writer.pc = "loop"
    /\ writer.attempt_number > 0
    /\ do_exit
    /\ writer' = [writer EXCEPT !.pc = "recv"]
    /\ UNCHANGED <<ENTRY_BUFFER, taken, channel, now, db, storage, op, read_out,
                   file, mutex, handler, dedupVars, aggVars>>

WriterAbort ==
    /\ writer.pc = "loop"
    /\ writer.attempt_number > 0
    /\ do_exit
    /\ writer' = [writer EXCEPT !.pc = "aborted"]
    /\ UNCHANGED <<ENTRY_BUFFER, taken, channel, now, db, storage, op, read_out,
                   file, mutex, handler, dedupVars, aggVars>>

\* Lines 92-93 of a retry: sleep, then triple the wait.
WriterSleep ==
    /\ writer.pc = "loop"
    /\ writer.attempt_number > 0
    /\ ~do_exit
    /\ writer' = [writer EXCEPT
                    !.pc = "open",
                    !.has_waited = @ + writer.wait_duration,
                    !.wait_duration = @ + @ * 2]
    /\ UNCHANGED <<ENTRY_BUFFER, taken, channel, now, db, storage, op, read_out,
                   file, mutex, handler, dedupVars, aggVars>>

\* Line 96: Storage::open_as_read_write returns Ok.
WriterOpenOk ==
    /\ writer.pc = "open"
    /\ \E d \in OpMillis :
          writer' = [writer EXCEPT !.pc = "lock", !.has_waited = @ + d]
    /\ storage' = [open |-> TRUE, auto_create_database_file |-> TRUE,
                   entries |-> <<>>,
                   record_interval_seconds |-> RECORD_INTERVAL_SECONDS,
                   txn |-> FALSE, view |-> <<>>]
    /\ UNCHANGED <<ENTRY_BUFFER, taken, channel, now, db, op, read_out, file, mutex, handler, dedupVars, aggVars>>

\* Lines 97-100: the open failed; `continue`.
WriterOpenErr ==
    /\ writer.pc = "open"
    /\ \E d \in OpMillis :
          writer' = [writer EXCEPT !.pc = "loop", !.attempt_number = @ + 1,
                                   !.has_waited = @ + d]
    /\ UNCHANGED <<ENTRY_BUFFER, taken, channel, now, db, storage, op, read_out,
                   file, mutex, handler, dedupVars, aggVars>>

\* Line 104: ENTRY_BUFFER.lock() returns once nobody else holds the mutex.
WriterLock ==
    /\ writer.pc = "lock"
    /\ mutex = "none"
    /\ mutex' = "writer"
    /\ writer' = [writer EXCEPT !.pc = "drain"]
    /\ UNCHANGED <<ENTRY_BUFFER, taken, channel, now, db, storage, op, read_out,
                   file, handler, dedupVars, aggVars>>

\* A faulty drain: the guard outlives the block and is still held during
\* write_entries.
WriterDrain_KeepsGuard ==
    /\ writer.pc = "drain"
    /\ storage' = [storage EXCEPT !.entries = @ \o ENTRY_BUFFER]
    /\ ENTRY_BUFFER' = <<>>
    /\ writer' = [writer EXCEPT !.pc = "write"]
    /\ UNCHANGED <<taken, channel, now, db, op, read_out, file, mutex, handler,
                   dedupVars, aggVars>>

\* Lines 105-107, under the mutex: the buffer is staged in this attempt's
\* Storage and cleared; the guard is dropped at the end of the block.
WriterDrain ==
    /\ writer.pc = "drain"
    /\ storage' = [storage EXCEPT !.entries = @ \o ENTRY_BUFFER]
    /\ ENTRY_BUFFER' = <<>>
    /\ mutex' = "none"
    /\ writer' = [writer EXCEPT !.pc = "write"]
    /\ UNCHANGED <<taken, channel, now, db, op, read_out, file, handler,
                   dedupVars, aggVars>>

\* Lines 108-126: write_entries returns Ok; the Storage is closed and
\* dropped, the loop is left and write_data_to_storage returns Ok.
WriterWriteOk ==
    /\ writer.pc = "write"
    /\ \E last_entry \in get_last_database_entry(db) :
          db' = WriteAll(db, last_entry, storage.entries,
                         storage.record_interval_seconds)
    /\ storage' = StorageClosed
    /\ writer' = [writer EXCEPT !.pc = "recv"]
    /\ UNCHANGED <<ENTRY_BUFFER, taken, channel, now, op, read_out, file, mutex, handler, dedupVars, aggVars>>

\* Lines 109-112: write_entries returns Err; `continue` drops this
\* attempt's Storage, its outbox with it, and the connection's open
\* transaction is rolled back.
WriterWriteErr ==
    /\ writer.pc = "write"
    /\ \E d \in OpMillis :
          writer' = [writer EXCEPT !.pc = "loop", !.attempt_number = @ + 1,
                                   !.has_waited = @ + d]
    /\ storage' = StorageClosed
    /\ UNCHANGED <<ENTRY_BUFFER, taken, channel, now, db, op, read_out, file, mutex, handler, dedupVars, aggVars>>

RecorderInit ==
    /\ StoreIdle
    /\ DedupIdle
    /\ RecorderIdle
    /\ AggIdle

RecorderNext ==
    \/ SamplerTick
    \/ WriterRecv
    \/ WriterFirstAttempt
    \/ WriterAbort
    \/ WriterSleep
    \/ WriterOpenOk
    \/ WriterOpenErr
    \/ WriterLock
    \/ WriterDrain
    \/ WriterWriteOk
    \/ WriterWriteErr

SpecRecorder == RecorderInit /\ [][RecorderNext]_vars

\* The writer thread (lines 207-211) is scheduled fairly: it is not stopped
\* forever where it has a step.  Wherever the thread has a step one of these
\* is enabled, write_entries being able to fail wherever it can succeed, so
\* WriterWriteOk need not be listed: a thread that stays in write_entries
\* forever violates the fairness of this disjunction all the same.
WriterScheduled ==
    \/ WriterRecv
    \/ WriterFirstAttempt
    \/ WriterAbort
    \/ WriterSleep
    \/ WriterOpenOk
    \/ WriterOpenErr
    \/ WriterLock
    \/ WriterDrain
    \/ WriterWriteErr

SpecRecorderFair == SpecRecorder /\ WF_vars(WriterScheduled)

(***************************************************************************)
(* SpecSignal: the recorder with SIGINT or SIGTERM delivered.              *)
(* handle_signal (lines 132-141) runs write_data_to_storage in the signal  *)
(* context, whatever the writer thread is doing, and then aborts.          *)
(***************************************************************************)
\* The signal arrives: handle_signal starts and calls write_data_to_storage
\* (lines 133-136).
HandleSignal ==
    /\ Running
    /\ handler.pc = "none"
    /\ handler' = [pc |-> "flush"]
    /\ UNCHANGED <<ENTRY_BUFFER, writer, taken, channel, mutex, now, db, storage,
                   op, read_out, file, dedupVars, aggVars>>

\* An attempt of the handler's write_data_to_storage succeeds: with the
\* mutex free the buffer is staged in the handler's own Storage and cleared,
\* write_entries commits it, and handle_signal aborts the process (line 140).
HandlerFlush ==
    /\ Running
    /\ handler.pc = "flush"
    /\ mutex = "none"
    /\ \E last_entry \in get_last_database_entry(db) :
          db' = WriteAll(db, last_entry, ENTRY_BUFFER, RECORD_INTERVAL_SECONDS)
    /\ ENTRY_BUFFER' = <<>>
    /\ handler' = [pc |-> "aborted"]
    /\ writer' = [writer EXCEPT !.pc = "aborted"]
    /\ UNCHANGED <<taken, channel, mutex, now, storage, op, read_out, file,
                   dedupVars, aggVars>>

\* Every attempt of the handler's write_data_to_storage fails and its retry
\* loop aborts the process (lines 86-90).
HandlerGiveUp ==
    /\ Running
    /\ handler.pc = "flush"
    /\ handler' = [pc |-> "aborted"]
    /\ writer' = [writer EXCEPT !.pc = "aborted"]
    /\ UNCHANGED <<ENTRY_BUFFER, taken, channel, mutex, now, db, storage, op,
                   read_out, file, dedupVars, aggVars>>

SignalNext ==
    \/ SamplerTick
    \/ WriterRecv
    \/ WriterFirstAttempt
    \/ WriterAbort
    \/ WriterSleep
    \/ WriterOpenOk
    \/ WriterOpenErr
    \/ WriterLock
    \/ WriterDrain
    \/ WriterWriteOk
    \/ WriterWriteErr
    \/ HandleSignal
    \/ HandlerFlush
    \/ HandlerGiveUp

SpecSignal == RecorderInit /\ [][SignalNext]_vars

(***************************************************************************)
(* Properties of the recorder, checked under SpecRecorder.                 *)
(***************************************************************************)
\* C1: no sample is dropped while the process keeps running.  Whenever
\* write_data_to_storage has returned (the writer waits for the next flush
\* signal), every sample taken so far is committed to the table or still in
\* the buffer: the seconds in the table and in the buffer add up to the
\* seconds sampled, also after a flush whose first attempt failed.
C1_NoSampleDropped ==
    writer.pc = "recv" =>
        SumDuration(db) + SumDuration(ENTRY_BUFFER)
            = taken * RECORD_INTERVAL_SECONDS

(***************************************************************************)
(* SpecTolerance: one call of deduplicate_entries over sample sequences of *)
(* up to MaxLenTol samples, to compare the call with the same call under   *)
(* another tolerance.                                                      *)
(***************************************************************************)
TolKinds == {<<"Active", VarsA>>, <<"Idle", VarsA>>}

TolSamples ==
    {Entry_new(t, d, k[1], k[2]) : t \in Timestamps, d \in Durations, k \in TolKinds}

TolSampleSeqs == UNION {[1..n -> TolSamples] : n \in 0..MaxLenTol}

ToleranceCallInit ==
    /\ record_interval_seconds \in Tolerances
    /\ \E last_entry \in {Entry_empty} \cup TolSamples, entries \in TolSampleSeqs :
           dedup = DedupInit(last_entry, entries)
    /\ StoreIdle
    /\ RecorderIdle
    /\ AggIdle

SpecTolerance == ToleranceCallInit /\ [][DedupNext]_vars

\* C11: tolerance monotonicity.  For the same last_entry and samples, a
\* call with a tolerance at least as large as this call's emits no more
\* output entries than this call did.
C11_ToleranceMonotone ==
    DedupDone =>
        \A t2 \in Tolerances :
            record_interval_seconds <= t2 =>
                Len(deduplicate_entries(ArgLastEntry, ArgEntries, t2).entries_dedup)
                    <= Len(dedup.entries_dedup)

(***************************************************************************)
(* Compacting a compacted sequence again, checked under SpecDedup.         *)
(***************************************************************************)
\* C12: merge idempotence.  The output of a finished call, compacted again
\* with the same tolerance (its first entry as last_entry, the others as the
\* samples), is the same sequence of entries.
C12_MergeIdempotent ==
    (DedupDone /\ dedup.entries_dedup # <<>>) =>
        deduplicate_entries(Head(dedup.entries_dedup), Tail(dedup.entries_dedup),
                            record_interval_seconds).entries_dedup
            = dedup.entries_dedup

(***************************************************************************)
(* Reading back, checked under SpecStore.                                  *)
(***************************************************************************)
ReadReturned == op.call = "read_entries" /\ op.ok

\* An entry without its duration: timestamp, status and every variable.
WithoutDuration(entry) == [entry EXCEPT !.duration_seconds = 0]

\* The staged entries of the handle, compacted from scratch.
CompactedStaged ==
    deduplicate_entries(Entry_empty, storage.entries,
                        storage.record_interval_seconds).entries_dedup

\* The table holds what one write_entries of the handle's staged entries
\* put into a freshly created (empty) table.
WrittenToFreshStore ==
    /\ storage.open
    /\ storage.entries # <<>>
    /\ db = WriteAll(<<>>, Entry_empty, storage.entries,
                     storage.record_interval_seconds)

\* C13: round trip.  After a successful write_entries of staged entries to
\* a fresh store, a read_entries whose range strictly contains every
\* timestamp returns as many entries as the compacted staged entries, with
\* the same timestamps, statuses and variable fields.
C13_RoundTrip ==
    [][(/\ WriteReturnedOk
        /\ WrittenToFreshStore
        /\ ReadReturned'
        /\ \A i \in 1..Len(db) :
              /\ op'.start_utc_time_seconds < db[i].utc_time_seconds
              /\ db[i].utc_time_seconds < op'.end_utc_time_seconds)
       => /\ Len(read_out') = Len(CompactedStaged)
          /\ {WithoutDuration(read_out'[i]) : i \in 1..Len(read_out')}
                = {WithoutDuration(CompactedStaged[i]) : i \in 1..Len(CompactedStaged)}
    ]_vars

\* How often x occurs in seq.
CountIn(seq, x) == Cardinality({i \in 1..Len(seq) : seq[i] = x})

\* The persisted rows a read_entries(start, end) is to return.
RowsInRange(start, end) ==
    {i \in 1..Len(db) :
        start < db[i].utc_time_seconds /\ db[i].utc_time_seconds < end}

\* C14: read_entries(start, end) returns exactly the persisted rows with
\* start < utc_time_seconds < end, each once, in ascending timestamp order,
\* and changes neither the table nor the outbox.
C14_ReadExactRange ==
    [][ReadReturned' =>
        LET wanted == RowsInRange(op'.start_utc_time_seconds,
                                  op'.end_utc_time_seconds)
        IN  /\ Len(read_out') = Cardinality(wanted)
            /\ \A i \in wanted :
                  CountIn(read_out', db[i])
                      = Cardinality({j \in wanted : db[j] = db[i]})
            /\ \A i \in 1..(Len(read_out') - 1) :
                  read_out'[i].utc_time_seconds <= read_out'[i + 1].utc_time_seconds
            /\ db' = db
            /\ storage'.entries = storage.entries
    ]_vars

(***************************************************************************)
(* SpecOpen: Storage::open on a path where no file exists yet, through     *)
(* open_as_read_only and open_as_read_write, and the calls on the handle.  *)
(***************************************************************************)
FileMissing == [exists |-> FALSE, table |-> FALSE, mode |-> "none"]

\* The mode a file gets when SQLite creates it: what the umask leaves.
DefaultModes == {"0600", "0644"}

\* open_as_read_only (auto_create_database_file = false) where no file
\* exists: lines 432-437 return Err before anything is opened.
OpenAsReadOnlyMissing ==
    /\ ~storage.open
    /\ ~file.exists
    /\ op' = [call |-> "open_as_read_only", ok |-> FALSE]
    /\ read_out' = <<>>
    /\ UNCHANGED <<file, db, storage, now, dedupVars, recVars, aggVars>>

\* open_as_read_only on a file that exists: the connection is opened with
\* the same flags as for open_as_read_write (lines 439-442), nothing is
\* initialised, and the Storage returned is the same struct.
OpenAsReadOnly ==
    /\ ~storage.open
    /\ file.exists
    /\ storage' = [open |-> TRUE, auto_create_database_file |-> FALSE,
                   entries |-> <<>>,
                   record_interval_seconds |-> RECORD_INTERVAL_SECONDS,
                   txn |-> FALSE, view |-> <<>>]
    /\ op' = [call |-> "open_as_read_only", ok |-> TRUE]
    /\ read_out' = <<>>
    /\ UNCHANGED <<file, db, now, dedupVars, recVars, aggVars>>

\* open_as_read_write where no file exists, returning Ok: the file is
\* created, initialize_database creates the table, the mode is set to 0600.
OpenCreateOk ==
    /\ ~storage.open
    /\ ~file.exists
    /\ file' = FileCreated
    /\ storage' = [open |-> TRUE, auto_create_database_file |-> TRUE,
                   entries |-> <<>>,
                   record_interval_seconds |-> RECORD_INTERVAL_SECONDS,
                   txn |-> FALSE, view |-> <<>>]
    /\ op' = [call |-> "open_as_read_write", ok |-> TRUE]
    /\ read_out' = <<>>
    /\ UNCHANGED <<db, now, dedupVars, recVars, aggVars>>

\* open_as_read_write where no file exists, returning Err: the connection
\* could not be opened (line 442), or initialize_database failed (line 445)
\* and may leave a file without the table, in the mode it was created with.
OpenCreateErr ==
    /\ ~storage.open
    /\ ~file.exists
    /\ \/ file' = file
       \/ \E m \in DefaultModes :
             file' = [exists |-> TRUE, table |-> FALSE, mode |-> m]
    /\ op' = [call |-> "open_as_read_write", ok |-> FALSE]
    /\ read_out' = <<>>
    /\ UNCHANGED <<db, storage, now, dedupVars, recVars, aggVars>>

\* open_as_read_write where no file exists, panicking in lines 450-458
\* (File::open, metadata or set_permissions fails its expect): the file and
\* its table exist, the mode has not been set.
OpenCreatePanic ==
    /\ ~storage.open
    /\ ~file.exists
    /\ \E m \in DefaultModes :
          file' = [exists |-> TRUE, table |-> TRUE, mode |-> m]
    /\ op' = [call |-> "open_as_read_write", ok |-> FALSE]
    /\ read_out' = <<>>
    /\ UNCHANGED <<db, storage, now, dedupVars, recVars, aggVars>>

OpenInit ==
    /\ file = FileMissing
    /\ db = <<>>
    /\ storage = StorageClosed
    /\ op = [call |-> "none", ok |-> TRUE]
    /\ read_out = <<>>
    /\ now = 0
    /\ DedupIdle
    /\ RecorderIdle
    /\ AggIdle

OpenNext ==
    \/ OpenAsReadOnlyMissing
    \/ OpenAsReadOnly
    \/ OpenCreateOk
    \/ OpenCreateErr
    \/ OpenCreatePanic
    \/ StorageOpen
    \/ StorageDrop
    \/ ClockTick
    \/ InsertEntries
    \/ WriteEntriesOk

SpecOpen == OpenInit /\ [][OpenNext]_vars

\* C15: open_as_read_only where no file exists returns an error and creates
\* neither a file nor a table; and no call on a Storage obtained from
\* open_as_read_only changes the database file or its rows.
C15_ReadOnlyNeverWrites ==
    [][/\ (op'.call = "open_as_read_only" /\ ~file.exists) =>
              (~op'.ok /\ ~storage'.open /\ file' = file /\ db' = db)
       /\ (storage.open /\ ~storage.auto_create_database_file) =>
              (file' = file /\ db' = db)
    ]_vars

\* C16: open_as_read_write returning Ok where no file existed leaves a file
\* with an empty records table and mode 0600; where the file existed it
\* changes neither the rows nor the mode; and whenever the database file
\* holds a row its mode is 0600.
C16_CreatedFileOwnerOnly ==
    [][/\ (op'.call = "open_as_read_write" /\ op'.ok /\ ~file.exists) =>
              (file' = FileCreated /\ db' = <<>>)
       /\ (op'.call = "open_as_read_write" /\ op'.ok /\ file.exists) =>
              (file' = file /\ db' = db)
       /\ (file'.exists /\ db' # <<>>) => file'.mode = "0600"
    ]_vars

(***************************************************************************)
(* The sentinel status, checked under SpecRecorder.                        *)
(***************************************************************************)
\* C17: no persisted row has status Uninitialized.  The samples the
\* recorder stages are Active or Idle, and the Entry::empty() that stands
\* for "no prior entry" in write_entries is never written to the table.
C17_NoUninitializedRow ==
    \A i \in 1..Len(db) : db[i].status # "Uninitialized"

\* A flush has written rows to the table, the first of them with the
\* sentinel as last_entry, and the writer waits for the next signal.
C17_Witness ==
    /\ writer.pc = "recv"
    /\ Len(db) >= 2
    /\ \A i \in 1..Len(db) : db[i].status \in {"Active", "Idle"}
(***************************************************************************)
(* print-lib: the aggregation behind the report.  Here a String is the     *)
(* sequence of its characters, so that concatenation, emptiness and the    *)
(* byte order of strings are what they are in the code.                    *)
(***************************************************************************)
\* The characters used, in ascending byte order.
Alphabet == <<" ", "a", "b">>

StrA == <<"a">>
StrAB == <<"a", "b">>
StrB == <<"b">>
StrA_A == <<"a", " ", "a">>
\* names of environment variables
StrP == <<"P">>
StrQ == <<"Q">>

\* print-lib/src/utils.rs: the text of an optional string, empty when absent.
option_string_to_string(o) == IF o = None THEN <<>> ELSE o[1]

\* print-lib/src/variable.rs: enum Variable.
Variable_Executable == [kind |-> "Executable", name |-> <<>>]
Variable_VariableName(var_name) == [kind |-> "VariableName", name |-> var_name]

\* The `match variable` of combine_variable_values and multi_variable_values:
\* the executable, or the value of the first of var1..var4 that has the name.
variable_value(entry, variable) ==
    IF variable.kind = "Executable"
    THEN option_string_to_string(entry.vars.executable)
    ELSE LET var_name == variable.name
             var1_name == option_string_to_string(entry.vars.var1_name)
             var2_name == option_string_to_string(entry.vars.var2_name)
             var3_name == option_string_to_string(entry.vars.var3_name)
             var4_name == option_string_to_string(entry.vars.var4_name)
         IN  IF var_name = var1_name
             THEN option_string_to_string(entry.vars.var1_value)
             ELSE IF var_name = var2_name
             THEN option_string_to_string(entry.vars.var2_value)
             ELSE IF var_name = var3_name
             THEN option_string_to_string(entry.vars.var3_value)
             ELSE IF var_name = var4_name
             THEN option_string_to_string(entry.vars.var4_value)
             ELSE <<>>

\* The loop of combine_variable_values from position num (1-based) on: an
\* empty value is skipped, every other value is followed by one space unless
\* it is the value of the last variable of the list.
RECURSIVE combine_variable_values_from(_, _, _)
combine_variable_values_from(entry, variables, num) ==
    IF num > Len(variables)
    THEN <<>>
    ELSE LET var_value == variable_value(entry, variables[num])
             rest == combine_variable_values_from(entry, variables, num + 1)
         IN  IF var_value = <<>>
             THEN rest
             ELSE IF num # Len(variables)
             THEN var_value \o <<" ">> \o rest
             ELSE var_value \o rest

combine_variable_values(entry, variables) ==
    combine_variable_values_from(entry, variables, 1)

\* multi_variable_values: the non-empty values, in the order of the list.
RECURSIVE multi_variable_values_from(_, _, _)
multi_variable_values_from(entry, variables, num) ==
    IF num > Len(variables)
    THEN <<>>
    ELSE LET var_value == variable_value(entry, variables[num])
             rest == multi_variable_values_from(entry, variables, num + 1)
         IN  IF var_value = <<>> THEN rest ELSE <<var_value>> \o rest

multi_variable_values(entry, variables) ==
    multi_variable_values_from(entry, variables, 1)

\* HashMap: a function from its keys; new() and insert(key, value).
HashMap_new == [k \in {} |-> 0]
HashMap_insert(map, key, value) ==
    [k \in (DOMAIN map) \cup {key} |-> IF k = key THEN value ELSE map[k]]

\* sum_entry_duration
RECURSIVE sum_entry_duration(_, _)
sum_entry_duration(entries, only_status) ==
    IF entries = <<>>
    THEN 0
    ELSE (IF Head(entries).status # only_status
          THEN 0
          ELSE Head(entries).duration_seconds)
         + sum_entry_duration(Tail(entries), only_status)
(***************************************************************************)
(* SpecVariables: one call of sum_entry_variables_duration, one iteration  *)
(* of its loop per step.  The entries are rows as the recorder makes them: *)
(* the names of slots 1 and 2 are always set (in either order), a value or *)
(* the executable may be absent, and a value may contain a space.          *)
(***************************************************************************)
AggVarsOf(executable, p_value, q_value, swapped) ==
    IF swapped
    THEN [EntryVariablesList_empty EXCEPT
            !.executable = executable,
            !.var1_name = Some(StrQ), !.var1_value = q_value,
            !.var2_name = Some(StrP), !.var2_value = p_value]
    ELSE [EntryVariablesList_empty EXCEPT
            !.executable = executable,
            !.var1_name = Some(StrP), !.var1_value = p_value,
            !.var2_name = Some(StrQ), !.var2_value = q_value]

AggValues == {None, Some(StrA), Some(StrA_A)}
AggExecutables == {None, Some(StrB)}

\* both name orders are drawn for the entries without an executable
AggVarsPool ==
    {AggVarsOf(x, p, q, FALSE) :
        x \in AggExecutables, p \in AggValues, q \in AggValues}
    \cup {AggVarsOf(None, p, q, TRUE) : p \in AggValues, q \in AggValues}

AggEntries ==
    {Entry_new(0, d, st, v) :
        d \in Durations, st \in {"Active", "Idle"}, v \in AggVarsPool}

AggEntrySeqs == UNION {[1..n -> AggEntries] : n \in 0..MaxAggLen}

VariableLists ==
    {<<Variable_Executable>>,
     <<Variable_VariableName(StrQ)>>,
     <<Variable_VariableName(StrP), Variable_VariableName(StrQ)>>,
     <<Variable_Executable, Variable_VariableName(StrP),
       Variable_VariableName(StrQ)>>}

\* The state of a call right after `let mut map = HashMap::new()`.
AggCall(call, entries, variables, only_status) ==
    [call |-> call, pc |-> "sum",
     entries |-> entries, variables |-> variables,
     only_status |-> only_status,
     index |-> 1,            \* the entry the `for` loop is at
     map |-> HashMap_new,
     keys |-> {},            \* the keys map.keys() has still to yield
     sorted_keys |-> <<>>,
     lines |-> <<>>]

\* One iteration of `for entry in entries` of sum_entry_variables_duration,
\* or its return once the entries are exhausted.
SumVariablesStep ==
    /\ agg.call \in {"sum_entry_variables_duration",
                     "generate_entry_variables_lines"}
    /\ agg.pc = "sum"
    /\ IF agg.index > Len(agg.entries)
       THEN agg' = [agg EXCEPT
                      !.pc = IF agg.call = "sum_entry_variables_duration"
                             THEN "done" ELSE "keys",
                      !.keys = DOMAIN agg.map]
       ELSE LET entry == agg.entries[agg.index]
                key == combine_variable_values(entry, agg.variables)
                vars_ == multi_variable_values(entry, agg.variables)
                total == IF key \in DOMAIN agg.map
                         THEN agg.map[key].duration + entry.duration_seconds
                         ELSE entry.duration_seconds
            IN  IF entry.status # agg.only_status
                THEN agg' = [agg EXCEPT !.index = @ + 1]
                ELSE agg' = [agg EXCEPT
                               !.index = @ + 1,
                               !.map = HashMap_insert(@, key,
                                         [vars |-> vars_, duration |-> total])]
    /\ UNCHANGED <<dedupVars, storeVars, recVars>>

VariablesCallInit ==
    /\ \E entries \in AggEntrySeqs, variables \in VariableLists,
          only_status \in {"Active", "Idle"} :
          agg = AggCall("sum_entry_variables_duration", entries, variables,
                        only_status)
    /\ DedupIdle
    /\ StoreIdle
    /\ RecorderIdle

VariablesNext == SumVariablesStep

SpecVariables == VariablesCallInit /\ [][VariablesNext]_vars

AggReturned(call) == agg.call = call /\ agg.pc = "done"

\* the entries of the requested status, by position
OfStatus == {i \in 1..Len(agg.entries) : agg.entries[i].status = agg.only_status}

\* the ordered tuple of the selected variable values of an entry
ValueTuple(entry) ==
    [n \in 1..Len(agg.variables) |-> variable_value(entry, agg.variables[n])]

GroupKey(i) == combine_variable_values(agg.entries[i], agg.variables)

RECURSIVE SumDurationsAt(_)
SumDurationsAt(S) ==
    IF S = {}
    THEN 0
    ELSE LET i == CHOOSE x \in S : TRUE
         IN  agg.entries[i].duration_seconds + SumDurationsAt(S \ {i})

\* Every group holds the sum of the durations of the entries of the requested
\* status that were added under its key, and there is no other group.
C18_GroupSums ==
    AggReturned("sum_entry_variables_duration") =>
        /\ DOMAIN agg.map = {GroupKey(i) : i \in OfStatus}
        /\ \A k \in DOMAIN agg.map :
              agg.map[k].duration =
                  SumDurationsAt({i \in OfStatus : GroupKey(i) = k})

\* The entries whose selected values are all absent are under the empty key.
C18_AllAbsentUnderEmptyKey ==
    AggReturned("sum_entry_variables_duration") =>
        \A i \in OfStatus :
            (\A n \in 1..Len(agg.variables) :
                 ValueTuple(agg.entries[i])[n] = <<>>)
            <=> GroupKey(i) = <<>>

\* C18: when sum_entry_variables_duration returns, two entries of the requested
\* status are in the same group if and only if their ordered tuples of
\* selected variable values are equal; a group's duration is the sum of the
\* durations of its entries, entries of another status contribute nothing, and
\* the entries whose selected values are all absent form the group of the
\* empty key.
C18_GroupsByValueTuple ==
    /\ C18_GroupSums
    /\ C18_AllAbsentUnderEmptyKey
    /\ AggReturned("sum_entry_variables_duration") =>
          \A i, j \in OfStatus :
              GroupKey(i) = GroupKey(j)
              <=> ValueTuple(agg.entries[i]) = ValueTuple(agg.entries[j])
(***************************************************************************)
(* SpecReport: one call of generate_entry_variables_lines (print.rs): the  *)
(* sums per group, the keys of the map in whatever order the HashMap       *)
(* yields them, their sort, one line per sorted key and the line of the    *)
(* empty key.                                                              *)
(***************************************************************************)
\* <String as Ord>::cmp is Less: byte by byte, a proper prefix comes first.
Rank(c) == CHOOSE i \in 1..Len(Alphabet) : Alphabet[i] = c

RECURSIVE StrLess(_, _)
StrLess(a, b) ==
    IF b = <<>> THEN FALSE
    ELSE IF a = <<>> THEN TRUE
    ELSE IF Head(a) # Head(b) THEN Rank(Head(a)) < Rank(Head(b))
    ELSE StrLess(Tail(a), Tail(b))

\* Faulty variant: the keys stay in the order the map yielded them.
Vec_sort_Unsorted(v) == v

\* Vec<String>::sort: each element goes behind the elements not greater.
RECURSIVE Vec_sort(_)
Vec_sort(v) ==
    IF v = <<>>
    THEN <<>>
    ELSE LET rest == Vec_sort(Tail(v))
             before == SelectSeq(rest, LAMBDA k : ~StrLess(Head(v), k))
             after == SelectSeq(rest, LAMBDA k : StrLess(Head(v), k))
         IN  before \o <<Head(v)>> \o after

StrOther == <<"o", "t", "h", "e", "r">>

\* format_duration with DurationFormat::HoursMinutesSeconds: the numbers of
\* the text "HHh MMm SSs".
format_duration(seconds) ==
    <<seconds \div (60 * 60), (seconds \div 60) % 60, seconds % 60>>

\* get_map_keys_sorted_strings: `if !key.is_empty()`.
KeyKept(key) == key # <<>>

\* The line pushed for a group: line_mid1..line_mid5 and line_end.
VariablesLine(value, mid1_default) ==
    [line_mid |->
        [n \in 1..5 |->
            IF Len(value.vars) >= n THEN value.vars[n]
            ELSE IF n = 1 THEN mid1_default ELSE <<>>],
     line_end |-> format_duration(value.duration)]

\* One iteration of `for key in map_keys.clone()`: the HashMap yields its
\* keys in an order of its own.
KeysNext ==
    /\ agg.call = "generate_entry_variables_lines"
    /\ agg.pc = "keys"
    /\ \E key \in agg.keys :
          agg' = [agg EXCEPT
                    !.keys = @ \ {key},
                    !.sorted_keys = IF KeyKept(key) THEN Append(@, key) ELSE @]
    /\ UNCHANGED <<dedupVars, storeVars, recVars>>

\* `sorted_keys.sort()` and the return of get_map_keys_sorted_strings.
KeysSort ==
    /\ agg.call = "generate_entry_variables_lines"
    /\ agg.pc = "keys"
    /\ agg.keys = {}
    /\ agg' = [agg EXCEPT
                 !.sorted_keys = Vec_sort(@), !.pc = "lines", !.index = 1]
    /\ UNCHANGED <<dedupVars, storeVars, recVars>>

\* One iteration of `for key in sorted_keys`.
PushLine ==
    /\ agg.call = "generate_entry_variables_lines"
    /\ agg.pc = "lines"
    /\ agg.index <= Len(agg.sorted_keys)
    /\ LET key == agg.sorted_keys[agg.index]
       IN  agg' = [agg EXCEPT
                     !.index = @ + 1,
                     !.lines = IF key \in DOMAIN agg.map
                               THEN Append(@, VariablesLine(agg.map[key], <<>>))
                               ELSE @]
    /\ UNCHANGED <<dedupVars, storeVars, recVars>>

\* The 'other' line of the empty key, and the return.
PushOther ==
    /\ agg.call = "generate_entry_variables_lines"
    /\ agg.pc = "lines"
    /\ agg.index > Len(agg.sorted_keys)
    /\ agg' = [agg EXCEPT
                 !.pc = "done",
                 !.lines = IF <<>> \in DOMAIN agg.map
                           THEN Append(@, VariablesLine(agg.map[<<>>], StrOther))
                           ELSE @]
    /\ UNCHANGED <<dedupVars, storeVars, recVars>>

ReportVarsPool ==
    {[EntryVariablesList_empty EXCEPT
        !.executable = x, !.var1_name = Some(StrP), !.var1_value = p] :
        x \in {None, Some(StrA), Some(StrAB), Some(StrB)},
        p \in {None, Some(StrA)}}

ReportEntries ==
    {Entry_new(0, 1, "Active", v) : v \in ReportVarsPool}
    \cup {Entry_new(0, 1, "Idle", v) :
            v \in {w \in ReportVarsPool :
                     w.executable = Some(StrB) /\ w.var1_value = None}}

ReportEntrySeqs == UNION {[1..n -> ReportEntries] : n \in 0..MaxReportLen}

ReportVariableLists ==
    {<<Variable_Executable>>,
     <<Variable_Executable, Variable_VariableName(StrP)>>}

ReportCallInit ==
    /\ \E entries \in ReportEntrySeqs, variables \in ReportVariableLists :
          agg = AggCall("generate_entry_variables_lines", entries, variables,
                        "Active")
    /\ DedupIdle
    /\ StoreIdle
    /\ RecorderIdle

ReportNext ==
    \/ SumVariablesStep
    \/ KeysNext
    \/ KeysSort
    \/ PushLine
    \/ PushOther

SpecReport == ReportCallInit /\ [][ReportNext]_vars

\* get_map_keys_sorted_strings has returned
KeysReturned ==
    /\ agg.call = "generate_entry_variables_lines"
    /\ agg.pc \in {"lines", "done"}

NonEmptyKeys == (DOMAIN agg.map) \ {<<>>}

\* C19: whatever order the map yields its keys in, get_map_keys_sorted_strings
\* returns every non-empty key exactly once, in ascending lexicographic
\* order, and not the empty key; the lines of the report are those of the
\* sorted keys in that order, followed by the 'other' line of the empty key
\* when the map has it.
C19_SortedKeysOtherLast ==
    /\ KeysReturned =>
          /\ {agg.sorted_keys[i] : i \in 1..Len(agg.sorted_keys)} = NonEmptyKeys
          /\ Len(agg.sorted_keys) = Cardinality(NonEmptyKeys)
          /\ \A i, j \in 1..Len(agg.sorted_keys) :
                i < j => StrLess(agg.sorted_keys[i], agg.sorted_keys[j])
    /\ AggReturned("generate_entry_variables_lines") =>
          /\ Len(agg.lines) = Cardinality(DOMAIN agg.map)
          /\ \A i \in 1..Len(agg.sorted_keys) :
                agg.lines[i] = VariablesLine(agg.map[agg.sorted_keys[i]], <<>>)
          /\ <<>> \in DOMAIN agg.map =>
                /\ agg.lines[Len(agg.lines)].line_mid[1] = StrOther
                /\ agg.lines[Len(agg.lines)].line_end =
                      format_duration(agg.map[<<>>].duration)

\* A report of two groups, whose keys are a prefix of one another, and the
\* group of the empty key.
C19_Witness ==
    /\ AggReturned("generate_entry_variables_lines")
    /\ agg.sorted_keys = <<StrA, StrAB>>
    /\ <<>> \in DOMAIN agg.map
    /\ Len(agg.lines) = 3
(***************************************************************************)
(* SpecActivity: one call of sum_entry_activity_duration: its loop over    *)
(* the entries, the fringe keys, the filling of the gaps.  A               *)
(* DateTime<Local> is an instant (seconds since the Unix epoch) with the   *)
(* offset of the local time zone, a NaiveTime the seconds since local      *)
(* midnight.  The local zone has one fixed offset during a call.           *)
(***************************************************************************)
\* Stands for u64::MAX, the initial seconds_min: integers are 32 bits wide
\* here, and every timestamp of the model is below it.
u64_MAX == 2147483647

\* TimeBlockUnit::as_minutes of the units drawn
TimeBlockUnits == {5, 30, 60}

\* Offsets of the local zone, in seconds: UTC and UTC+05:30.
LocalOffsets == {0, 19800}

\* 2022-01-08 00:00:00 UTC; the recorder stamps entries with the clock.
ActivityEpoch == 19000 * 86400

\* datetime.rs
utc_seconds_to_datetime_local(utc_time_seconds) ==
    [utc |-> utc_time_seconds, offset |-> agg.utc_offset]

\* DateTime::time
DateTime_time(datetime) == (datetime.utc + datetime.offset) % 86400

\* Faulty variant: the second is not set to zero.
utc_seconds_rounded_KeepsSecond(utc_time_seconds, time_block_unit) ==
    LET datetime == utc_seconds_to_datetime_local(utc_time_seconds)
        local == datetime.utc + datetime.offset
        minute == (local \div 60) % 60
        number == minute \div time_block_unit
        with_minute == local - (minute * 60) + ((number * time_block_unit) * 60)
    IN  [datetime EXCEPT !.utc = with_minute - datetime.offset]

\* utc_seconds_rounded: datetime.minute(), with_minute, with_second(0)
utc_seconds_rounded(utc_time_seconds, time_block_unit) ==
    LET datetime == utc_seconds_to_datetime_local(utc_time_seconds)
        local == datetime.utc + datetime.offset
        minute == (local \div 60) % 60
        increment_minutes == time_block_unit
        number == minute \div increment_minutes
        with_minute == local - (minute * 60) + ((number * increment_minutes) * 60)
        with_second == with_minute - (with_minute % 60)
    IN  [datetime EXCEPT !.utc = with_second - datetime.offset]

add_min(value_min, value_previous) ==
    IF value_previous < value_min THEN value_previous ELSE value_min

add_max(value_max, value_next) ==
    IF value_next > value_max THEN value_next ELSE value_max

\* One iteration of `for entry in entries` of sum_entry_activity_duration.
SumActivityStep ==
    /\ agg.call = "sum_entry_activity_duration"
    /\ agg.pc = "sum"
    /\ agg.index <= Len(agg.entries)
    /\ LET entry == agg.entries[agg.index]
           increment_seconds == (agg.time_block_unit * 60) + 1
           seconds_current == entry.utc_time_seconds
           seconds_previous == seconds_current - increment_seconds
           seconds_next == seconds_current + increment_seconds
           key_current ==
               DateTime_time(utc_seconds_rounded(seconds_current, agg.time_block_unit))
           key_previous ==
               DateTime_time(utc_seconds_rounded(seconds_previous, agg.time_block_unit))
           key_next ==
               DateTime_time(utc_seconds_rounded(seconds_next, agg.time_block_unit))
           start_datetime == agg.start_end_datetime_pairs[1]
           end_datetime == agg.start_end_datetime_pairs[2]
           add_previous ==
               agg.add_fringe_datetimes /\ seconds_previous >= start_datetime
           add_next == agg.add_fringe_datetimes /\ seconds_next <= end_datetime
           min1 == add_min(agg.seconds_min, seconds_current)
           max1 == add_max(agg.seconds_max, seconds_current)
           total == IF key_current \in DOMAIN agg.map
                    THEN agg.map[key_current] + entry.duration_seconds
                    ELSE entry.duration_seconds
       IN  IF entry.status # agg.only_status
           THEN agg' = [agg EXCEPT !.index = @ + 1]
           ELSE agg' = [agg EXCEPT
                          !.index = @ + 1,
                          !.seconds_min =
                              IF add_previous THEN add_min(min1, seconds_previous)
                              ELSE min1,
                          !.seconds_max =
                              IF add_next THEN add_max(max1, seconds_next)
                              ELSE max1,
                          !.fringe_keys =
                              @ \o (IF add_previous THEN <<key_previous>> ELSE <<>>)
                                \o (IF add_next THEN <<key_next>> ELSE <<>>),
                          !.map = HashMap_insert(@, key_current, total)]
    /\ UNCHANGED <<dedupVars, storeVars, recVars>>

\* insert a zero duration under every key of the set that the map lacks
InsertEmptyDurations(map, keys) ==
    [k \in (DOMAIN map) \cup keys |-> IF k \in DOMAIN map THEN map[k] ELSE 0]

\* `for fringe_key in fringe_keys`
ActivityFringe ==
    /\ agg.call = "sum_entry_activity_duration"
    /\ agg.pc = "sum"
    /\ agg.index > Len(agg.entries)
    /\ agg' = [agg EXCEPT
                 !.pc = "fill",
                 !.map = InsertEmptyDurations(@,
                             {agg.fringe_keys[i] : i \in 1..Len(agg.fringe_keys)})]
    /\ UNCHANGED <<dedupVars, storeVars, recVars>>

\* (seconds_min..seconds_max).step_by(increment_seconds)
StepBy(seconds_min, seconds_max, increment_seconds) ==
    IF seconds_min >= seconds_max
    THEN {}
    ELSE {seconds_min + (n * increment_seconds) :
              n \in 0..((seconds_max - seconds_min - 1) \div increment_seconds)}

\* `if fill_datetimes_gaps { ... }` and the return of the map
ActivityFill ==
    /\ agg.call = "sum_entry_activity_duration"
    /\ agg.pc = "fill"
    /\ LET increment_seconds == (agg.time_block_unit * 60) - 1
           keys == {DateTime_time(utc_seconds_rounded(seconds, agg.time_block_unit)) :
                      seconds \in StepBy(agg.seconds_min, agg.seconds_max,
                                         increment_seconds)}
       IN  agg' = [agg EXCEPT
                     !.pc = "done",
                     !.map = IF agg.fill_datetimes_gaps
                             THEN InsertEmptyDurations(@, keys)
                             ELSE @]
    /\ UNCHANGED <<dedupVars, storeVars, recVars>>

\* Entries just before, on and after block boundaries, one of them a day
\* later; durations shorter and longer than a block of five minutes.
ActivityTimes ==
    {ActivityEpoch + t : t \in {3599, 3600, 3900, 5401, 86400 + 3610}}

ActivityEntries ==
    {Entry_new(t, k[1], k[2], EntryVariablesList_empty) :
        t \in ActivityTimes,
        k \in {<<1, "Active">>, <<400, "Active">>, <<1, "Idle">>}}

ActivityEntrySeqs == UNION {[1..n -> ActivityEntries] : n \in 0..MaxActivityLen}

\* The range of the report: later than the fringe before the earliest
\* entries, earlier than the fringe after the latest.
ActivityRange == <<ActivityEpoch + 3590, ActivityEpoch + 86400>>

ActivityCallInit ==
    /\ \E entries \in ActivityEntrySeqs, time_block_unit \in TimeBlockUnits,
          utc_offset \in LocalOffsets, only_status \in {"Active", "Idle"},
          add_fringe_datetimes \in BOOLEAN, fill_datetimes_gaps \in BOOLEAN :
          agg = [call |-> "sum_entry_activity_duration", pc |-> "sum",
                 entries |-> entries,
                 start_end_datetime_pairs |-> ActivityRange,
                 add_fringe_datetimes |-> add_fringe_datetimes,
                 fill_datetimes_gaps |-> fill_datetimes_gaps,
                 time_block_unit |-> time_block_unit,
                 only_status |-> only_status,
                 utc_offset |-> utc_offset,
                 index |-> 1,
                 map |-> HashMap_new,
                 seconds_min |-> u64_MAX,
                 seconds_max |-> 0,
                 fringe_keys |-> <<>>]
    /\ DedupIdle
    /\ StoreIdle
    /\ RecorderIdle

ActivityNext ==
    \/ SumActivityStep
    \/ ActivityFringe
    \/ ActivityFill

SpecActivity == ActivityCallInit /\ [][ActivityNext]_vars

\* The bucket of an entry: its local time of day, in seconds since midnight,
\* less the seconds and the minutes beyond a multiple of the block unit.
BucketOf(i) ==
    LET local == agg.entries[i].utc_time_seconds + agg.utc_offset
        second_of_day == local % 86400
        hour == second_of_day \div 3600
        minute == (second_of_day % 3600) \div 60
    IN  (hour * 3600) + ((minute - (minute % agg.time_block_unit)) * 60)

\* the sum of the values of the map under the keys given
RECURSIVE SumValuesAt(_, _)
SumValuesAt(map, keys) ==
    IF keys = {}
    THEN 0
    ELSE LET k == CHOOSE x \in keys : TRUE
         IN  map[k] + SumValuesAt(map, keys \ {k})

\* the sum of all values of the map: that of its values other than zero
SumValues(map) == SumValuesAt(map, {k \in DOMAIN map : map[k] # 0})

ObservedBuckets ==
    {BucketOf(i) : i \in OfStatus}
    \cup {agg.fringe_keys[n] : n \in 1..Len(agg.fringe_keys)}

\* the time-block boundaries of a day, in seconds since midnight
BlockBoundaries ==
    {n * (agg.time_block_unit * 60) :
        n \in 0..((86400 \div (agg.time_block_unit * 60)) - 1)}

\* the entries of the requested status lie within one local day
EntriesOfOneDay ==
    \A i, j \in OfStatus :
        (agg.entries[i].utc_time_seconds + agg.utc_offset) \div 86400
        = (agg.entries[j].utc_time_seconds + agg.utc_offset) \div 86400

\* C21: when sum_entry_activity_duration returns with fill_datetimes_gaps set,
\* the keys of the map are exactly the time-block boundaries from the earliest
\* to the latest observed bucket, and a bucket no entry fell into is zero.
C21_GapsFilledWithinSpan ==
    (AggReturned("sum_entry_activity_duration") /\ agg.fill_datetimes_gaps) =>
        /\ DOMAIN agg.map =
              {b \in BlockBoundaries :
                  /\ \E lo \in ObservedBuckets : lo <= b
                  /\ \E hi \in ObservedBuckets : b <= hi}
        /\ \A k \in DOMAIN agg.map :
              (\A i \in OfStatus : BucketOf(i) # k) => agg.map[k] = 0

\* The same for the calls whose entries of the status lie within one day.
C21_OneDay == EntriesOfOneDay => C21_GapsFilledWithinSpan
(***************************************************************************)
(* The tolerance of deduplicate_entries, in terms of the gap between the   *)
(* current run and the sample.                                             *)
(***************************************************************************)
\* the sample's start less the run's end (negative when they overlap)
Gap(run, sample) ==
    sample.utc_time_seconds - (run.utc_time_seconds + run.duration_seconds)

\* the loop iteration adds the sample's duration to the run and emits nothing
MergedInto(sample) ==
    LET n == Len(dedup.entries_dedup)
    IN  /\ dedup'.entries_dedup =
              [dedup.entries_dedup EXCEPT
                 ![n].duration_seconds = @ + sample.duration_seconds]
        /\ dedup'.entry_row_statuses = dedup.entry_row_statuses

SameKind(run, sample) == run.status = sample.status /\ run.vars = sample.vars

\* C22 as stated: a sample of the run's status and variables is merged
\* exactly when the gap between the run's end and the sample's start is at
\* most the tolerance.
C22_Original ==
    [][DedupRunning(dedup) =>
        (SameKind(CurrentRun, CurrentSample) =>
            (MergedInto(CurrentSample)
             <=> Gap(CurrentRun, CurrentSample) <= record_interval_seconds))
    ]_vars

\* C22: a sample of the run's status and variables is merged exactly when
\* the sample's end (its start plus its own duration) is within the tolerance
\* of the run's end, before or after it: the gap plus the sample's duration
\* lies between minus the tolerance and the tolerance.
C22_EndWithinTolerance ==
    [][DedupRunning(dedup) =>
        (SameKind(CurrentRun, CurrentSample) =>
            (MergedInto(CurrentSample)
             <=> LET ends == Gap(CurrentRun, CurrentSample)
                               + CurrentSample.duration_seconds
                 IN  /\ ends <= record_interval_seconds
                     /\ 0 - ends <= record_interval_seconds))
    ]_vars

\* A finished call with tolerance 1 on a last_entry (0, 1) and two samples of
\* its kind that each start where the run ends: (1, 1) was merged, (2, 2)
\* was not.
C22_Witness ==
    /\ DedupDone
    /\ record_interval_seconds = 1
    /\ ArgLastEntry.status # "Uninitialized"
    /\ ArgLastEntry.utc_time_seconds = 0 /\ ArgLastEntry.duration_seconds = 1
    /\ Len(ArgEntries) = 2
    /\ \A i \in 1..2 : SameKind(ArgLastEntry, ArgEntries[i])
    /\ ArgEntries[1].utc_time_seconds = 1 /\ ArgEntries[1].duration_seconds = 1
    /\ ArgEntries[2].utc_time_seconds = 2 /\ ArgEntries[2].duration_seconds = 2
    /\ Len(dedup.entries_dedup) = 2
    /\ dedup.entries_dedup[1].duration_seconds = 2
    /\ dedup.entries_dedup[2] = ArgEntries[2]
C24_AttemptsStartWithinBudget ==
    writer.pc = "open" => writer.has_waited <= total_allowed_wait_millis
\* C25: the buffer mutex is held by the writer only inside the
\* copy-and-clear block: in no reachable state does the writer hold it
\* while it sleeps or tests the budget, opens the Storage or runs
\* write_entries, and with no signal handled the mutex is then free, so that
\* the sampler's push is not blocked by storage I/O or by a retry sleep.
C25_MutexOnlyAroundDrain ==
    /\ mutex = "writer" => writer.pc = "drain"
    /\ writer.pc \in {"loop", "open", "write"} => mutex = "none"

\* The writer runs write_entries on the ten samples it copied out, the mutex
\* is free, and the sampler has pushed the next sample meanwhile.
C25_Witness ==
    /\ writer.pc = "write"
    /\ Len(storage.entries) = ENTRY_BUFFER_MAX_COUNT
    /\ mutex = "none"
    /\ Len(ENTRY_BUFFER) = 1
(***************************************************************************)
(* Properties of the recorder with signals, checked under SpecSignal.      *)
(***************************************************************************)
\* C26: at most one execution of write_data_to_storage is in progress at
\* any time: while handle_signal runs its flush, the writer thread is not
\* inside a call of its own.
C26_OneFlushAtATime ==
    handler.pc = "flush" => writer.pc \in {"recv", "aborted"}
(***************************************************************************)
(* What a crash can lose, checked under SpecRecorder.                      *)
(***************************************************************************)
\* C27: in every reachable state the number of samples taken and not yet
\* committed to the table is at most ENTRY_BUFFER_MAX_COUNT (every sample
\* lasts RECORD_INTERVAL_SECONDS, so the table's durations count the
\* committed samples).
C27_UncommittedAtMostOneBuffer ==
    taken * RECORD_INTERVAL_SECONDS - SumDuration(db)
        <= ENTRY_BUFFER_MAX_COUNT * RECORD_INTERVAL_SECONDS
RangeEntrySeqs ==
    {es \in UNION {[1..n -> 1..MaxRangeTime] : n \in 0..MaxRangeLen} :
        \A i \in 1..(Len(es) - 1) : es[i] < es[i + 1]}

\* Lines 341-349: the call starts with both indices 0.
RangeCallInit ==
    /\ \E es \in RangeEntrySeqs, start_of_time \in 0..(MaxRangeTime + 1),
          end_of_time \in 0..(MaxRangeTime + 1) :
          agg = [call |-> "datetime_range_entries", pc |-> "loop",
                 entries |-> [i \in 1..Len(es) |->
                                 Entry_new(es[i], RECORD_INTERVAL_SECONDS,
                                           "Active", VarsA)],
                 start_of_time |-> start_of_time,
                 end_of_time |-> end_of_time,
                 i |-> 0,
                 start_index |-> 0,
                 end_index |-> 0,
                 slice |-> <<>>]
    /\ DedupIdle
    /\ StoreIdle
    /\ RecorderIdle

\* Lines 350-355, one iteration: i is the zero-based index of `entry`.
RangeLoop ==
    /\ agg.call = "datetime_range_entries"
    /\ agg.pc = "loop"
    /\ agg.i < Len(agg.entries)
    /\ LET entry == agg.entries[agg.i + 1]
       IN  agg' = IF /\ entry.utc_time_seconds > agg.start_of_time
                     /\ entry.utc_time_seconds < agg.end_of_time
                  THEN [agg EXCEPT
                          !.i = @ + 1,
                          !.start_index = IF @ < agg.i THEN @ ELSE agg.i,
                          !.end_index = IF @ > agg.i THEN @ ELSE agg.i]
                  ELSE [agg EXCEPT !.i = @ + 1]
    /\ UNCHANGED <<dedupVars, storeVars, recVars>>

\* Line 358: &self.entries[start_index..end_index], the end excluded.
RangeReturn ==
    /\ agg.call = "datetime_range_entries"
    /\ agg.pc = "loop"
    /\ agg.i = Len(agg.entries)
    /\ agg' = [agg EXCEPT
                 !.pc = "returned",
                 !.slice = SubSeq(agg.entries, agg.start_index + 1, agg.end_index)]
    /\ UNCHANGED <<dedupVars, storeVars, recVars>>

\* Lines 361-368, on the slice the call returned.
is_datetime_range_empty == Len(agg.slice) = 0

RangeNext ==
    \/ RangeLoop
    \/ RangeReturn

SpecRange == RangeCallInit /\ [][RangeNext]_vars

\* The held entries whose timestamp lies strictly inside the range, in order.
EntriesInRange ==
    SelectSeq(agg.entries,
              LAMBDA e : /\ agg.start_of_time < e.utc_time_seconds
                         /\ e.utc_time_seconds < agg.end_of_time)

\* C28: datetime_range_entries(start, end) returns the slice of exactly the
\* held entries with start < utc_time_seconds < end, in order, and
\* is_datetime_range_empty(start, end) is true if and only if no held entry
\* lies in the range.
C28_SliceIsExactlyTheRange ==
    agg.pc = "returned" =>
        /\ agg.slice = EntriesInRange
        /\ is_datetime_range_empty <=> EntriesInRange = <<>>
(***************************************************************************)
(* SpecBatch: a sequence of samples persisted in batches.  Each batch goes *)
(* through a fresh Storage as in write_data_to_storage: insert_entries     *)
(* stages it and write_entries (storage.rs 557-594) compacts it against    *)
(* the last persisted row and writes it.                                   *)
(***************************************************************************)
\* Samples as the sampler stamps them: ascending clock values, one interval
\* long, of the statuses and executables of StoreKinds (one with a path).
BatchSampleSeqs ==
    UNION {{[i \in 1..n |-> Entry_new(ts[i], RECORD_INTERVAL_SECONDS,
                                      ks[i][1], ks[i][2])] :
               ts \in {t \in [1..n -> 0..MaxBatchLen] :
                          \A i \in 1..(n - 1) : t[i] < t[i + 1]},
               ks \in [1..n -> StoreKinds]} : n \in 0..MaxBatchLen}

\* Nothing persisted yet, the table empty.
BatchCallInit ==
    /\ \E samples \in BatchSampleSeqs :
          agg = [call |-> "write_entries", samples |-> samples, persisted |-> 0,
                 table |-> <<>>]
    /\ DedupIdle
    /\ StoreIdle
    /\ RecorderIdle

\* The next batch_len samples are staged in a fresh Storage and written.
PersistBatch ==
    /\ agg.call = "write_entries"
    /\ \E batch_len \in 1..(Len(agg.samples) - agg.persisted),
          last_entry \in get_last_database_entry(agg.table) :
          agg' = [agg EXCEPT
                    !.persisted = @ + batch_len,
                    !.table = WriteAll(@, last_entry,
                                       SubSeq(agg.samples, agg.persisted + 1,
                                              agg.persisted + batch_len),
                                       RECORD_INTERVAL_SECONDS)]
    /\ UNCHANGED <<dedupVars, storeVars, recVars>>

SpecBatch == BatchCallInit /\ [][PersistBatch]_vars

\* The table the whole sequence leaves when it is persisted in one batch.
OneBatchTable ==
    WriteAll(<<>>, Entry_empty, agg.samples, RECORD_INTERVAL_SECONDS)

\* C29: batch independence.  Once the whole sequence is persisted, in
\* whatever batches, the table is the one that persisting the sequence in
\* one batch leaves, also for samples whose executable contains a path.
C29_BatchIndependence ==
    (agg.call = "write_entries" /\ agg.persisted = Len(agg.samples)) =>
        agg.table = OneBatchTable

\* The same, for sequences without a path in any executable.
C29_WithoutPaths ==
    (\A i \in 1..Len(agg.samples) :
        agg.samples[i].vars.executable # Some(ExePathVim)) =>
        C29_BatchIndependence

====
